---- MODULE Spec2Model ----
(***************************************************************************)
(* A model of pdf2pdfocr.py (src/pdf2pdfocr.py): the pipeline driven by    *)
(* Pdf2PdfOcr.ocr(), the three multiprocessing phases (do_pdftoimage,       *)
(* do_deskew, do_ocr), the overlay assembler, the merge fallback chain and  *)
(* the finalizer.                                                           *)
(*                                                                          *)
(* External tools (file, pdftoppm, convert, mogrify, tesseract, pdf2ps,     *)
(* ps2pdf, pdftk, the multibackground merge) are black boxes: each call     *)
(* picks its outcome with \E.  The temp directory is the set `files`.       *)
(***************************************************************************)
EXTENDS Integers, Sequences, FiniteSets, TLC

(***************************************************************************)
(* Bounds of the model.                                                     *)
(***************************************************************************)
MaxPages == 5        \* pages of the input document in a pipeline run
MaxCpu == 2          \* largest worker budget in a pipeline run
MaxBlindPages == 2   \* pages written when the page count is not known
MaxRangePages == 12  \* page counts tried on calculate_ranges alone
MaxRangeCpu == 9     \* worker budgets tried on calculate_ranges alone
MaxTessPages == 2    \* pages tesseract may emit for one page image

\* input_file_number_of_pages = None (line 214, line 570)
None == -1

VARIABLES
    pc,                          \* where the main process is in __main__ / ocr()
    exit_code,                   \* process exit status, None while running
    args,                        \* the parsed command line (lines 788, 171-204)
    ghostscript,                 \* path_ps2pdf and path_pdf2ps both found (259-262)
    cpu_to_use,                  \* line 222-224
    input_file_type,             \* line 612
    input_file_is_encrypted,     \* line 572
    input_file_number_of_pages,  \* line 567-570
    files,                       \* the temp directory: a set of file names
    out_pdf,                     \* the file at self.output_file
    out_txt,                     \* the file at self.output_file_text
    phase,                       \* which pool is running work items
    parallel_page_ranges,        \* line 508
    image_file_list,             \* line 295
    st,                          \* status of every work item of the phase
    ocr_pdf,                     \* pages of PREFIX-ocr.pdf, in order
    merge_path,                  \* the branch build_final_output took (335/358)
    repair_calls,                \* calls of try_repair_input_and_merge
    candidate,                   \* what PREFIX-OUTPUT.pdf was merged from
    work_failures,               \* phases in which a work item failed
    stderr_log,                  \* the fatal message printed by eprint, if any
    prefix,                      \* line 154: five characters, as ASCII codes
    input_file_metadata,         \* line 213, line 574
    info_dict_output,            \* line 691: the metadata of the final document
    convert_params,              \* lines 377-392: the parameters handed to convert
    tesseract_pages,             \* the page counts tesseract may emit for one image
    overlay_pages                \* the pages do_ocr wrote to each overlay (line 109)

vars == << pc, exit_code, args, ghostscript, cpu_to_use, input_file_type,
           input_file_is_encrypted, input_file_number_of_pages, files, out_pdf, out_txt, phase,
           parallel_page_ranges, image_file_list, st, ocr_pdf, merge_path, repair_calls, candidate,
           work_failures, stderr_log, prefix, input_file_metadata,
           info_dict_output, convert_params, tesseract_pages,
           overlay_pages >>

(***************************************************************************)
(* Arithmetic helpers.                                                      *)
(***************************************************************************)
Min(a, b) == IF a <= b THEN a ELSE b

\* math.ceil(a / b) for a >= 0, b >= 1 (lines 640, 641)
ceil_div(a, b) == IF a % b = 0 THEN a \div b ELSE (a \div b) + 1

RECURSIVE SumSeq(_)
SumSeq(s) == IF s = << >> THEN 0 ELSE Head(s) + SumSeq(Tail(s))

(***************************************************************************)
(* calculate_ranges (lines 632-657).  The result is a record: `raised` is   *)
(* "" on a normal return, else the exception; `none` is the None return of  *)
(* line 638; `result` is the list of (range_start, range_end).              *)
(***************************************************************************)
\* a range size rounded down instead of up
range_size_floor(P, W) == P \div W

\* line 640
range_size(P, W) == ceil_div(P, W)

\* one range for every worker, whatever the range size
number_of_ranges_by_cpu(P, W) == W

\* line 641
number_of_ranges(P, W) == ceil_div(P, range_size(P, W))

\* the end of range i without the clamp of lines 647-648
range_end_unclamped(P, W, i) == (range_size(P, W) * i) + range_size(P, W)

\* lines 645-648: the end of range i (0-based), clamped to the page count
range_end(P, W, i) ==
    IF (range_size(P, W) * i) + range_size(P, W) > P
    THEN P
    ELSE (range_size(P, W) * i) + range_size(P, W)

\* lines 642-649
build_ranges(P, W) ==
    [k \in 1..number_of_ranges(P, W) |->
        << (range_size(P, W) * (k - 1)) + 1, range_end(P, W, k - 1) >>]

\* lines 651-653
check_pages(result) ==
    SumSeq([k \in 1..Len(result) |-> (result[k][2] - result[k][1]) + 1])

calculate_ranges(P, W) ==
    IF P = None
    THEN [raised |-> "", none |-> TRUE, result |-> << >>]
    ELSE IF range_size(P, W) = 0
    THEN [raised |-> "ZeroDivisionError", none |-> FALSE, result |-> << >>]
    ELSE IF check_pages(build_ranges(P, W)) # P
    THEN [raised |-> "ArithmeticError", none |-> FALSE, result |-> << >>]
    ELSE [raised |-> "", none |-> FALSE, result |-> build_ranges(P, W)]

(***************************************************************************)
(* File names of the temp directory.  Every name of a run is               *)
(*     head + PREFIX + tail [+ "-" + num] + "." + ext                       *)
(* where num is the zero-padded page number written by pdftoppm (width =    *)
(* digits of the page count) or by convert's %09d (line 525).  A name is a  *)
(* record of these parts; num is a sequence of decimal digits and PREFIX a  *)
(* sequence of five ASCII codes.                                            *)
(***************************************************************************)
extension_images == "jpg"     \* line 142

ConvertWidth == 9             \* '-%09d.' (line 525)

RECURSIVE NumDigits(_)
NumDigits(n) == IF n < 10 THEN 1 ELSE 1 + NumDigits(n \div 10)

RECURSIVE Pow10(_)
Pow10(k) == IF k = 0 THEN 1 ELSE 10 * Pow10(k - 1)

\* "%0*d": page number p as w digits (more when p needs more)
PadNum(p, w) ==
    LET n == IF NumDigits(p) > w THEN NumDigits(p) ELSE w
    IN  [k \in 1..n |-> (p \div Pow10(n - k)) % 10]

RECURSIVE NumValue(_)
NumValue(d) ==
    IF d = << >> THEN 0
    ELSE 10 * NumValue(SubSeq(d, 1, Len(d) - 1)) + d[Len(d)]

\* a temp file name carrying the prefix pfx
NameOf(pfx, head, tail, num, ext) ==
    [prefix |-> pfx, head |-> head, tail |-> tail, num |-> num, ext |-> ext]

\* a temp file name of this run: it carries self.prefix
FileName(head, tail, num, ext) == NameOf(prefix, head, tail, num, ext)

PageImage(d) == FileName("", "", d, extension_images)      \* lines 56, 525
TessPdf(d) == FileName("", "", d, "pdf")                   \* line 94
TessTmp(d) == FileName("", "", d, "tmp")                   \* line 95
TessTxt(d) == FileName("", "", d, "txt")                   \* line 84
TessErrLog(d) == FileName("tess_err_", "", d, "log")       \* line 89
\* one pdftoppm log for the whole run, whatever the range
PdftoppmErrLogOfRun(first) == FileName("pdftoppm_err_", "-range", << >>, "log")

\* line 59: pdftoppm_err_PREFIX-first-last.log; the range is its first page
PdftoppmErrLog(first) == FileName("pdftoppm_err_", "-range", << first >>, "log")
OcrPdf == FileName("", "-ocr", << >>, "pdf")               \* line 467
OutputPdf == FileName("", "-OUTPUT", << >>, "pdf")         \* line 341
InputUnprotectedPdf == FileName("", "-input_unprotected", << >>, "pdf")  \* 400
FixPs == FileName("", "-fixPDF", << >>, "ps")              \* line 421
FixPdf == FileName("", "-fixPDF", << >>, "pdf")            \* line 427
MergePdftkLog == FileName("err_multiback-", "-merge-pdftk", << >>, "log")
MergeLog == FileName("err_multiback-", "-merge", << >>, "log")
MergeFixedLog == FileName("err_multiback-", "-merge-fixed", << >>, "log")
RebuildLog == FileName("err_multiback-", "-rebuild", << >>, "log")
Pdf2psLog == FileName("err_pdf2ps-", "", << >>, "log")
Ps2pdfLog == FileName("err_ps2pdf-", "", << >>, "log")

\* The characters of a name before the prefix, as ASCII codes.
HeadChars(head) ==
    CASE head = "" -> << >>
      [] head = "tess_err_" -> << 116, 101, 115, 115, 95, 101, 114, 114, 95 >>
      [] head = "pdftoppm_err_" -> << 112, 100, 102, 116, 111, 112, 112, 109, 95, 101, 114, 114, 95 >>
      [] head = "err_multiback-" -> << 101, 114, 114, 95, 109, 117, 108, 116, 105, 98, 97, 99, 107, 45 >>
      [] head = "err_pdf2ps-" -> << 101, 114, 114, 95, 112, 100, 102, 50, 112, 115, 45 >>
      [] head = "err_ps2pdf-" -> << 101, 114, 114, 95, 112, 115, 50, 112, 100, 102, 45 >>

\* The characters of a name after the prefix, as ASCII codes; the tail
\* "-range" of a pdftoppm log stands for the "-first-last" that follows.
TailChars(tail) ==
    CASE tail = "" -> << >>
      [] tail = "-ocr" -> << 45, 111, 99, 114 >>
      [] tail = "-OUTPUT" -> << 45, 79, 85, 84, 80, 85, 84 >>
      [] tail = "-input_unprotected" -> << 45, 105, 110, 112, 117, 116, 95, 117, 110, 112, 114, 111, 116, 101, 99, 116, 101, 100 >>
      [] tail = "-fixPDF" -> << 45, 102, 105, 120, 80, 68, 70 >>
      [] tail = "-merge-pdftk" -> << 45, 109, 101, 114, 103, 101, 45, 112, 100, 102, 116, 107 >>
      [] tail = "-merge" -> << 45, 109, 101, 114, 103, 101 >>
      [] tail = "-merge-fixed" -> << 45, 109, 101, 114, 103, 101, 45, 102, 105, 120, 101, 100 >>
      [] tail = "-rebuild" -> << 45, 114, 101, 98, 117, 105, 108, 100 >>
      [] OTHER -> << >>

ExtChars(ext) ==
    CASE ext = "jpg" -> << 106, 112, 103 >>
      [] ext = "pdf" -> << 112, 100, 102 >>
      [] ext = "tmp" -> << 116, 109, 112 >>
      [] ext = "txt" -> << 116, 120, 116 >>
      [] ext = "log" -> << 108, 111, 103 >>
      [] ext = "ps" -> << 112, 115 >>

\* the characters of a name from the prefix on, up to the dot
NameChars(f) ==
    TailChars(f.tail)
      \o (IF f.num = << >> THEN << >>
          ELSE << 45 >> \o [k \in 1..Len(f.num) |-> 48 + f.num[k]])
      \o << 46 >>

\* the whole name, as ASCII codes
FullChars(f) ==
    HeadChars(f.head) \o f.prefix \o NameChars(f) \o ExtChars(f.ext)

StartsWith(c, p) == Len(c) >= Len(p) /\ SubSeq(c, 1, Len(p)) = p

EndsWith(c, p) ==
    Len(c) >= Len(p) /\ SubSeq(c, (Len(c) - Len(p)) + 1, Len(c)) = p

\* fnmatch of "*" + p + "*.*": p somewhere in the name and a dot after it
ContainsThenDot(c, p) ==
    \E i \in 1..Len(c) :
        /\ (i + Len(p)) - 1 <= Len(c)
        /\ SubSeq(c, i, (i + Len(p)) - 1) = p
        /\ \E j \in (i + Len(p))..Len(c) : c[j] = 46

\* glob.glob(tmp_dir + prefix + "*." + ext) (lines 295, 446, 461, 488)
glob_prefix(dir, ext) ==
    {f \in dir : /\ StartsWith(FullChars(f), prefix)
                 /\ EndsWith(FullChars(f), << 46 >> \o ExtChars(ext))}

\* glob.glob(tmp_dir + "*" + prefix + "*.*") (line 282)
glob_any_prefix(dir) == {f \in dir : ContainsThenDot(FullChars(f), prefix)}

\* str.__lt__ on the characters: the first difference decides
RECURSIVE SeqLess(_, _)
SeqLess(a, b) ==
    IF b = << >> THEN FALSE
    ELSE IF a = << >> THEN TRUE
    ELSE IF Head(a) # Head(b) THEN Head(a) < Head(b)
    ELSE SeqLess(Tail(a), Tail(b))

NameLess(f, g) == SeqLess(NameChars(f), NameChars(g))

RECURSIVE SortNames(_)
SortNames(S) ==
    IF S = {} THEN << >>
    ELSE LET m == CHOOSE f \in S : \A g \in S \ {f} : NameLess(f, g)
         IN  << m >> \o SortNames(S \ {m})

SeqToSet(s) == { s[k] : k \in 1..Len(s) }

\* the list as glob returned it
unsorted(list) == list

\* sorted(list) of file names (lines 295, 399, 446, 461)
sorted(list) == SortNames(SeqToSet(list))

\* the orders in which glob may list a set of names
RECURSIVE Listings(_)
Listings(S) ==
    IF S = {} THEN { << >> }
    ELSE UNION { { << f >> \o l : l \in Listings(S \ {f}) } : f \in S }

(***************************************************************************)
(* The command line (lines 743-788) and the state before __init__.          *)
(***************************************************************************)
Args ==
    [safe_mode : {FALSE}, check_text_mode : {FALSE},
     check_protection_mode : {FALSE}, force_rebuild_mode : BOOLEAN,
     use_deskew_mode : BOOLEAN, create_text_mode : BOOLEAN,
     use_pdftk : BOOLEAN, keep_temps : {FALSE}, convert_params : {""}]

\* one value of the random prefix (line 154): "K3QZ7"
SomePrefix == << 75, 51, 81, 90, 55 >>

\* input_file_metadata is None (documentInfo of a document without /Info)
\* or a dict, here the set of its (key, value) entries; a text value is the
\* sequence of its parts
NoInfo == [is_none |-> TRUE, dict |-> {}]

Info(entries) == [is_none |-> FALSE, dict |-> entries]

Entry(key, value) == [key |-> key, value |-> value]

producer_key == "/Producer"                                  \* line 672

our_name == "PDF2PDFOCR(github.com/LeoFCardoso/pdf2pdfocr)"  \* line 670

\* pdfReader.documentInfo of the inputs tried (line 574)
DocumentInfos ==
    { NoInfo,
      Info({Entry("/Title", << "Scan" >>)}),
      Info({Entry(producer_key, << "Acrobat" >>)}) }

Boot(a) ==
    /\ pc = "init"
    /\ exit_code = None
    /\ args = a
    /\ ghostscript = FALSE
    /\ cpu_to_use = 0
    /\ input_file_type = ""                 \* line 202
    /\ input_file_is_encrypted = FALSE      \* line 212
    /\ input_file_number_of_pages = None    \* line 214
    /\ files = {}
    /\ out_pdf \in {"absent", "old"}
    /\ out_txt = "absent"
    /\ phase = "none"
    /\ parallel_page_ranges = << >>
    /\ image_file_list = << >>
    /\ st = << >>
    /\ ocr_pdf = << >>
    /\ merge_path = "none"
    /\ repair_calls = 0
    /\ convert_params = ""
    /\ tesseract_pages = {1}
    /\ overlay_pages = {}
    /\ candidate = "none"
    /\ work_failures = {}
    /\ stderr_log = ""
    /\ prefix = SomePrefix
    /\ input_file_metadata = Info({})        \* line 213
    /\ info_dict_output = {}

Init == \E a \in Args : Boot(a)

(***************************************************************************)
(* cleanup (lines 279-285) and the two ways the process dies.               *)
(***************************************************************************)
delete_temps == ~args.keep_temps      \* line 195

cleanup(dir) == IF delete_temps THEN dir \ glob_any_prefix(dir) ELSE dir

\* a fatal message followed by a successful exit status
Exit0(msg) ==
    /\ pc' = "exit"
    /\ exit_code' = 0
    /\ stderr_log' = msg

\* eprint(msg); exit(1)
Exit1(msg) ==
    /\ pc' = "exit"
    /\ exit_code' = 1
    /\ stderr_log' = msg

\* an exception nobody catches: traceback on stderr, exit status 1, and the
\* statements after the raise (cleanup included) never run
Uncaught(exc) ==
    /\ pc' = "exit"
    /\ exit_code' = 1
    /\ stderr_log' = exc

(***************************************************************************)
(* multiprocessing.Pool(cpu_to_use).starmap / starmap_async (lines 481-486, *)
(* 497-499, 510-517).  The items are cut into chunks of chunksize; a worker *)
(* process takes the next chunk and runs its items one after the other; an  *)
(* exception raised by an item ends its chunk, and the items left in that   *)
(* chunk are never run.  The map is ready once every chunk has ended.       *)
(***************************************************************************)
chunksize(n, W) ==
    IF n = 0 THEN 0
    ELSE (n \div (W * 4)) + (IF n % (W * 4) # 0 THEN 1 ELSE 0)

chunk_first(k, cs) == (((k - 1) \div cs) * cs) + 1

chunk_last(k, n, cs) == Min(n, (((k - 1) \div cs) + 1) * cs)

NItems == Len(st)

CS == chunksize(NItems, cpu_to_use)

Running == {k \in 1..NItems : st[k] = "running"}

\* a map that is ready as soon as one item has failed
ready_fail_fast ==
    \/ \A k \in 1..NItems : st[k] \notin {"queued", "running"}
    \/ \E k \in 1..NItems : st[k] = "failed"

\* a map that is ready only when every item returned normally
ready_when_all_ok == \A k \in 1..NItems : st[k] = "ok"

\* a map that is ready from the start
ready_at_once == TRUE

\* MapResult.ready(): set once no chunk of the map is left
ready == \A k \in 1..NItems : st[k] \notin {"queued", "running"}

\* the statuses after item k ended: a raise skips the rest of its chunk,
\* a return lets the worker go on with the next item of the chunk
item_ended(k, outcome, raised) ==
    [j \in 1..NItems |->
        IF j = k THEN outcome
        ELSE IF j > k /\ j <= chunk_last(k, NItems, CS)
        THEN (IF raised THEN "skipped"
              ELSE IF j = k + 1 THEN "running" ELSE st[j])
        ELSE st[j]]

\* the item the worker of item k runs next, 0 when there is none
next_item(k, raised) ==
    IF ~raised /\ k + 1 <= chunk_last(k, NItems, CS) THEN k + 1 ELSE 0

\* the file a work item opens for stderr when its subprocess is started
item_log(k) ==
    IF k = 0 THEN {}
    ELSE IF phase = "rasterize" THEN {PdftoppmErrLog(parallel_page_ranges[k][1])}
    ELSE IF phase = "ocr" THEN {TessErrLog(image_file_list[k].num)}
    ELSE {}

\* the images pdftoppm writes for pages first..last of a document of n pages
pdftoppm_images(first, last, n) ==
    {PageImage(PadNum(p, NumDigits(n))) : p \in first..last}

\* the files work item k of the running phase writes: pdftoppm the images
\* of its range and its log (lines 52-62), mogrify its image (line 71),
\* tesseract and do_ocr the files named after its image (lines 81-110)
item_writes(k) ==
    IF phase = "rasterize"
    THEN pdftoppm_images(parallel_page_ranges[k][1],
                         parallel_page_ranges[k][2],
                         input_file_number_of_pages)
            \cup {PdftoppmErrLog(parallel_page_ranges[k][1])}
    ELSE IF phase = "deskew"
    THEN {image_file_list[k]}
    ELSE IF phase = "ocr"
    THEN {TessPdf(image_file_list[k].num), TessTmp(image_file_list[k].num),
          TessTxt(image_file_list[k].num),
          TessErrLog(image_file_list[k].num)}
    ELSE {}

\* a pool that starts a process for every chunk
worker_always_free == TRUE

\* Pool(self.cpu_to_use) (lines 481, 497, 510): cpu_to_use worker processes,
\* each running one item at a time
worker_free == Cardinality(Running) < cpu_to_use

\* a free worker process takes the next chunk off the task queue
worker_take_chunk ==
    /\ phase # "none"
    /\ worker_free
    /\ \E k \in 1..NItems :
        /\ st[k] = "queued"
        /\ k = chunk_first(k, CS)
        /\ \A j \in 1..(k - 1) : st[j] # "queued"
        /\ st' = [st EXCEPT ![k] = "running"]
        /\ files' = files \cup item_log(k)
    /\ UNCHANGED << pc, exit_code, args, prefix, tesseract_pages, ghostscript, cpu_to_use,
                    input_file_type, input_file_is_encrypted, input_file_metadata,
                    input_file_number_of_pages, out_pdf, info_dict_output, out_txt, phase,
                    parallel_page_ranges, image_file_list, overlay_pages,
                    ocr_pdf, merge_path, convert_params, repair_calls, candidate,
                    work_failures, stderr_log >>

\* do_pdftoimage (lines 42-63) in a worker: pdftoppm fails or writes the range
do_pdftoimage ==
    /\ phase = "rasterize"
    /\ \E k \in Running, ok \in BOOLEAN :
        /\ st' = item_ended(k, IF ok THEN "ok" ELSE "failed", FALSE)
        /\ files' = files
              \cup (IF ok
                    THEN pdftoppm_images(parallel_page_ranges[k][1],
                                         parallel_page_ranges[k][2],
                                         input_file_number_of_pages)
                    ELSE {})
              \cup item_log(next_item(k, FALSE))
        /\ work_failures' = IF ok THEN work_failures
                            ELSE work_failures \cup {"rasterize"}
    /\ UNCHANGED << pc, exit_code, args, prefix, tesseract_pages, ghostscript, cpu_to_use,
                    input_file_type, input_file_is_encrypted, input_file_metadata,
                    input_file_number_of_pages, out_pdf, info_dict_output, out_txt, phase,
                    parallel_page_ranges, image_file_list, overlay_pages,
                    ocr_pdf, merge_path, convert_params, repair_calls, candidate,
                    stderr_log >>

\* do_deskew (lines 66-72) in a worker: mogrify rewrites the image or fails
do_deskew ==
    /\ phase = "deskew"
    /\ \E k \in Running, ok \in BOOLEAN :
        /\ st' = item_ended(k, IF ok THEN "ok" ELSE "failed", FALSE)
        /\ work_failures' = IF ok THEN work_failures
                            ELSE work_failures \cup {"deskew"}
    /\ UNCHANGED << pc, exit_code, args, prefix, tesseract_pages, ghostscript, cpu_to_use,
                    input_file_type, input_file_is_encrypted, input_file_metadata,
                    input_file_number_of_pages, files, out_pdf, info_dict_output, out_txt,
                    phase, parallel_page_ranges, image_file_list, overlay_pages,
                    ocr_pdf, merge_path, convert_params, repair_calls,
                    candidate, stderr_log >>

\* base.pdf as do_ocr leaves it (lines 100-109): every page of the
\* document tesseract wrote is added to the writer and written back;
\* only page 0 is stripped of its image
pages_written(tess_pages) == tess_pages

written_overlay(name, tess_pages) ==
    {o \in overlay_pages : o.name # name}
        \cup {[name |-> name, pages |-> pages_written(tess_pages)]}

\* do_ocr (lines 75-111) in a worker.  tesseract writes base.pdf and
\* base.txt; base.pdf is renamed to base.tmp and the stripped page is
\* written to base.pdf.  When tesseract fails there is no base.pdf and
\* os.rename (line 96) raises FileNotFoundError.
do_ocr ==
    /\ phase = "ocr"
    /\ \E k \in Running, ok \in BOOLEAN, n \in tesseract_pages :
        /\ st' = item_ended(k, IF ok THEN "ok" ELSE "failed", ~ok)
        /\ files' = files
              \cup (IF ok
                    THEN {TessTxt(image_file_list[k].num),
                          TessTmp(image_file_list[k].num),
                          TessPdf(image_file_list[k].num)}
                    ELSE {})
              \cup item_log(next_item(k, ~ok))
        /\ overlay_pages' =                                 \* lines 100-109
              IF ok
              THEN written_overlay(TessPdf(image_file_list[k].num), n)
              ELSE overlay_pages
        /\ work_failures' = IF ok THEN work_failures
                            ELSE work_failures \cup {"ocr"}
    /\ UNCHANGED << pc, exit_code, args, prefix, tesseract_pages, ghostscript, cpu_to_use,
                    input_file_type, input_file_is_encrypted, input_file_metadata,
                    input_file_number_of_pages, out_pdf, info_dict_output, out_txt, phase,
                    parallel_page_ranges, image_file_list,
                    ocr_pdf, merge_path, convert_params, repair_calls, candidate,
                    stderr_log >>

docVars == << input_file_type, input_file_is_encrypted, input_file_metadata,
              input_file_number_of_pages >>
poolVars == << phase, parallel_page_ranges, image_file_list, st,
              overlay_pages >>
mergeVars == << ocr_pdf, merge_path, repair_calls, candidate,
               convert_params >>

(***************************************************************************)
(* Pdf2PdfOcr.__init__ with check_external_tools (lines 167-262).           *)
(***************************************************************************)
\* lines 222-224; cpus is int(multiprocessing.cpu_count() * parallel_threshold)
pool_size(cpus) == IF cpus = 0 THEN 1 ELSE cpus

init ==
    /\ pc = "init"
    /\ \E required \in BOOLEAN, gs \in BOOLEAN, input_found \in BOOLEAN,
          pdftk \in BOOLEAN, cpus \in 0..MaxCpu :
        IF ~required
        THEN /\ Exit1("tool not found. Aborting...")           \* 231-257
             /\ UNCHANGED << ghostscript, cpu_to_use >>
        ELSE IF ~input_found
        THEN /\ Exit1("input not found. Exiting.")             \* 198-200
             /\ ghostscript' = gs
             /\ UNCHANGED cpu_to_use
        ELSE IF args.use_pdftk /\ ~pdftk
        THEN /\ Exit1("pdftk not found. Aborting...")          \* 205-209
             /\ ghostscript' = gs
             /\ UNCHANGED cpu_to_use
        ELSE /\ pc' = "detect_file_type"
             /\ ghostscript' = gs
             /\ cpu_to_use' = pool_size(cpus)
             /\ UNCHANGED << exit_code, stderr_log >>
    /\ UNCHANGED << args, prefix, tesseract_pages, docVars, files, out_pdf, info_dict_output, out_txt, poolVars,
                    mergeVars, work_failures >>

(***************************************************************************)
(* ocr(), lines 287-300: the stages before the merge.                       *)
(***************************************************************************)
MimeTypes == {"application/pdf", "image/tiff", "text/plain"}

\* detect_file_type (lines 606-613) and the branch of line 290
detect_file_type ==
    /\ pc = "detect_file_type"
    /\ \E t \in MimeTypes :
        /\ input_file_type' = t
        /\ pc' = IF t = "application/pdf" THEN "validate_pdf_input_file"
                 ELSE "define_output_files"
    /\ UNCHANGED << exit_code, args, prefix, tesseract_pages, ghostscript, cpu_to_use,
                    input_file_is_encrypted, input_file_metadata, input_file_number_of_pages,
                    files, out_pdf, info_dict_output, out_txt, poolVars, mergeVars,
                    work_failures, stderr_log >>

\* line 596
text_check_fails(has_text) ==
    input_file_type = "application/pdf" /\ args.check_text_mode /\ has_text

\* the encryption pre-check switched off
protection_check_off(encrypted) == FALSE

\* line 601
protection_check_fails(encrypted) ==
    input_file_type = "application/pdf" /\ args.check_protection_mode
        /\ encrypted

\* validate_pdf_input_file (lines 557-604)
validate_pdf_input_file ==
    /\ pc = "validate_pdf_input_file"
    /\ \E corrupted \in BOOLEAN, pages \in {None} \cup 1..MaxPages,
          encrypted \in BOOLEAN, has_text \in BOOLEAN,
          documentInfo \in DocumentInfos :
        IF corrupted
        THEN /\ Exit1("Corrupted PDF file detected. Aborting...")
             /\ files' = cleanup(files)
             /\ UNCHANGED << input_file_is_encrypted, input_file_metadata,
                             input_file_number_of_pages >>
        ELSE /\ input_file_number_of_pages' = pages
             /\ input_file_is_encrypted' = encrypted
             /\ input_file_metadata' =                    \* lines 573-574
                   IF ~encrypted THEN documentInfo ELSE input_file_metadata
             /\ IF text_check_fails(has_text)
                THEN /\ Exit1("already has text. Exiting.")
                     /\ files' = cleanup(files)
                ELSE IF protection_check_fails(encrypted)
                THEN /\ Exit1("is encrypted PDF. Exiting.")
                     /\ files' = cleanup(files)
                ELSE /\ pc' = "define_output_files"
                     /\ UNCHANGED << exit_code, stderr_log, files >>
    /\ UNCHANGED << args, prefix, tesseract_pages, ghostscript, cpu_to_use, input_file_type, out_pdf, info_dict_output,
                    out_txt, poolVars, mergeVars, work_failures >>

\* a safe mode that looks at the PDF output only
refuse_overwrite_pdf_only(pdf, txt) == args.safe_mode /\ pdf # "absent"

\* lines 548-549: safe mode and an output file is already there
refuse_overwrite(pdf, txt) ==
    \/ (args.safe_mode /\ pdf # "absent")
    \/ (args.safe_mode /\ args.create_text_mode /\ txt # "absent")

\* define_output_files (lines 538-555)
define_output_files ==
    /\ pc = "define_output_files"
    /\ IF refuse_overwrite(out_pdf, out_txt)
       THEN /\ Exit1("already exists and safe mode is enabled. Exiting.")
            /\ files' = cleanup(files)
       ELSE /\ pc' = "initial_cleanup"
            /\ UNCHANGED << exit_code, stderr_log, files >>
    /\ UNCHANGED << args, prefix, tesseract_pages, ghostscript, cpu_to_use, docVars, out_pdf, info_dict_output, out_txt,
                    poolVars, mergeVars, work_failures >>

\* initial_cleanup (lines 533-536)
initial_cleanup ==
    /\ pc = "initial_cleanup"
    /\ out_pdf' = "absent"
    /\ out_txt' = IF args.create_text_mode THEN "absent" ELSE out_txt
    /\ pc' = "convert_input_to_images"
    /\ UNCHANGED << exit_code, args, prefix, tesseract_pages, ghostscript, cpu_to_use, docVars, files,
                    poolVars, mergeVars, work_failures, stderr_log,
                    info_dict_output >>

\* convert's frames of an image input, named by '-%09d' from scene 1 (524-525)
convert_images(n) == {PageImage(PadNum(p, ConvertWidth)) : p \in 1..n}

\* convert_input_to_images (lines 505-531), up to the point where the pool
\* map is dispatched.  The unranged do_pdftoimage of line 520 and convert
\* run in the main process; n is the number of pages the tool wrote.
convert_input_to_images ==
    /\ pc = "convert_input_to_images"
    /\ IF input_file_type = "application/pdf"
       THEN LET r == calculate_ranges(input_file_number_of_pages, cpu_to_use)
            IN  IF r.raised # ""
                THEN /\ Uncaught(r.raised)
                     /\ UNCHANGED << files, phase, parallel_page_ranges, st,
                                     work_failures >>
                ELSE IF ~r.none
                THEN /\ phase' = "rasterize"
                     /\ parallel_page_ranges' = r.result
                     /\ st' = [k \in 1..Len(r.result) |-> "queued"]
                     /\ pc' = "pdfimage_pool"
                     /\ UNCHANGED << exit_code, stderr_log, files,
                                     work_failures >>
                ELSE /\ \E n \in 0..MaxBlindPages :
                          /\ files' = files \cup {PdftoppmErrLog(0)}
                                       \cup pdftoppm_images(1, n, n)
                          /\ work_failures' =
                                IF n = 0 THEN work_failures \cup {"rasterize"}
                                ELSE work_failures
                     /\ pc' = "image_file_list"
                     /\ UNCHANGED << exit_code, stderr_log, phase,
                                     parallel_page_ranges, st >>
       ELSE IF input_file_type \in {"image/tiff", "image/jpeg", "image/png"}
       THEN /\ \E n \in 0..MaxBlindPages :
                 /\ files' = files \cup convert_images(n)
                 /\ work_failures' =
                       IF n = 0 THEN work_failures \cup {"rasterize"}
                       ELSE work_failures
            /\ pc' = "image_file_list"
            /\ UNCHANGED << exit_code, stderr_log, phase,
                            parallel_page_ranges, st >>
       ELSE /\ Exit1("is not supported in this script. Exiting.")
            /\ files' = cleanup(files)
            /\ UNCHANGED << phase, parallel_page_ranges, st, work_failures >>
    /\ UNCHANGED << args, prefix, tesseract_pages, ghostscript, cpu_to_use, docVars, out_pdf, info_dict_output, out_txt,
                    image_file_list, overlay_pages, mergeVars >>

\* pdfimage_pool.starmap returns (line 517): every range has ended
pdfimage_pool_done ==
    /\ pc = "pdfimage_pool"
    /\ phase = "rasterize"
    /\ ready
    /\ phase' = "none"
    /\ st' = << >>
    /\ parallel_page_ranges' = << >>
    /\ pc' = "image_file_list"
    /\ UNCHANGED << exit_code, args, prefix, tesseract_pages, ghostscript, cpu_to_use, docVars, files,
                    out_pdf, info_dict_output, out_txt, image_file_list, overlay_pages,
                    mergeVars, work_failures, stderr_log >>

\* line 295: image_file_list = sorted(glob.glob(prefix*.jpg))
list_image_files ==
    /\ pc = "image_file_list"
    /\ \E listing \in Listings(glob_prefix(files, extension_images)) :
        image_file_list' = sorted(listing)
    /\ pc' = "deskew"
    /\ UNCHANGED << exit_code, args, prefix, tesseract_pages, ghostscript, cpu_to_use, docVars, files,
                    out_pdf, info_dict_output, out_txt, phase, parallel_page_ranges, st,
                    overlay_pages, mergeVars, work_failures, stderr_log >>

\* deskew (lines 494-503), up to the dispatch of deskew_pool.starmap
deskew ==
    /\ pc = "deskew"
    /\ IF args.use_deskew_mode
       THEN /\ phase' = "deskew"
            /\ st' = [k \in 1..Len(image_file_list) |-> "queued"]
            /\ pc' = "deskew_pool"
       ELSE /\ pc' = "external_ocr"
            /\ UNCHANGED << phase, st >>
    /\ UNCHANGED << exit_code, args, prefix, tesseract_pages, ghostscript, cpu_to_use, docVars, files,
                    out_pdf, info_dict_output, out_txt, parallel_page_ranges, image_file_list, overlay_pages,
                    mergeVars, work_failures, stderr_log >>

\* deskew_pool.starmap returns (line 499): every image has ended
deskew_pool_done ==
    /\ pc = "deskew_pool"
    /\ phase = "deskew"
    /\ ready
    /\ phase' = "none"
    /\ st' = << >>
    /\ pc' = "external_ocr"
    /\ UNCHANGED << exit_code, args, prefix, tesseract_pages, ghostscript, cpu_to_use, docVars, files,
                    out_pdf, info_dict_output, out_txt, parallel_page_ranges, image_file_list, overlay_pages,
                    mergeVars, work_failures, stderr_log >>

\* external_ocr (lines 479-486): ocr_pool.starmap_async is dispatched
external_ocr ==
    /\ pc = "external_ocr"
    /\ phase' = "ocr"
    /\ st' = [k \in 1..Len(image_file_list) |-> "queued"]
    /\ pc' = "ocr_pool_map"
    /\ UNCHANGED << exit_code, args, prefix, tesseract_pages, ghostscript, cpu_to_use, docVars, files,
                    out_pdf, info_dict_output, out_txt, parallel_page_ranges, image_file_list, overlay_pages,
                    mergeVars, work_failures, stderr_log >>

\* line 488: the count the polling loop logs
pages_processed == Cardinality(glob_prefix(files, "tmp"))

\* one turn of the polling loop (lines 487-490): the map is not ready, the
\* count is logged and the main process sleeps; nothing else changes
ocr_pool_map_wait ==
    /\ pc = "ocr_pool_map"
    /\ phase = "ocr"
    /\ ~ready
    /\ pages_processed \in 0..Len(image_file_list)
    /\ UNCHANGED vars

\* the loop ends (lines 487, 492); the exception of a failed item stays in
\* ocr_pool_map, which nobody reads
external_ocr_done ==
    /\ pc = "ocr_pool_map"
    /\ phase = "ocr"
    /\ ready
    /\ phase' = "none"
    /\ st' = << >>
    /\ pc' = "join_ocred_pdf"
    /\ UNCHANGED << exit_code, args, prefix, tesseract_pages, ghostscript, cpu_to_use, docVars, files,
                    out_pdf, info_dict_output, out_txt, parallel_page_ranges, image_file_list, overlay_pages,
                    mergeVars, work_failures, stderr_log >>

(***************************************************************************)
(* join_ocred_pdf (lines 457-477): the overlay assembler.                   *)
(***************************************************************************)
\* the number of pages of a file of the listing: what do_ocr wrote to it
pages_of(f) ==
    IF \E o \in overlay_pages : o.name = f
    THEN (CHOOSE o \in overlay_pages : o.name = f).pages
    ELSE 1

\* the pages of the merged document: every page of every appended file,
\* named here by the page number in the file's name (lines 465-466)
RECURSIVE pdf_merger(_)
pdf_merger(text_pdf_file_list) ==
    IF text_pdf_file_list = << >> THEN << >>
    ELSE [i \in 1..pages_of(Head(text_pdf_file_list)) |->
              NumValue(Head(text_pdf_file_list).num)]
         \o pdf_merger(Tail(text_pdf_file_list))

\* an empty list merged like any other
join_case_no_abort(n) == IF n = 1 THEN "copy" ELSE "merge"

\* a single overlay taken for none
join_case_abort_single(n) == IF n > 1 THEN "merge" ELSE "abort"

\* lines 463, 470, 472: what is done with n overlay files
join_case(n) == IF n > 1 THEN "merge" ELSE IF n = 1 THEN "copy" ELSE "abort"

join_ocred_pdf ==
    /\ pc = "join_ocred_pdf"
    /\ \E listing \in Listings(glob_prefix(files, "pdf")) :
        \E text_pdf_file_list \in {sorted(listing)} :
            IF join_case(Len(text_pdf_file_list)) = "merge"
            THEN /\ ocr_pdf' = pdf_merger(text_pdf_file_list)
                 /\ files' = files \cup {OcrPdf}
                 /\ pc' = "create_text_output"
                 /\ UNCHANGED << exit_code, stderr_log >>
            ELSE IF join_case(Len(text_pdf_file_list)) = "copy"
            THEN /\ ocr_pdf' = pdf_merger(<< text_pdf_file_list[1] >>)
                 /\ files' = files \cup {OcrPdf}
                 /\ pc' = "create_text_output"
                 /\ UNCHANGED << exit_code, stderr_log >>
            ELSE /\ Exit1("No PDF files generated after OCR. Aborting.")
                 /\ files' = cleanup(files)
                 /\ UNCHANGED ocr_pdf
    /\ UNCHANGED << args, prefix, tesseract_pages, ghostscript, cpu_to_use, docVars, out_pdf, info_dict_output, out_txt,
                    poolVars, merge_path, convert_params, repair_calls, candidate,
                    work_failures >>

\* create_text_output (lines 443-455)
create_text_output ==
    /\ pc = "create_text_output"
    /\ out_txt' = IF args.create_text_mode THEN "new" ELSE out_txt
    /\ pc' = "build_final_output"
    /\ UNCHANGED << exit_code, args, prefix, tesseract_pages, ghostscript, cpu_to_use, docVars, files,
                    out_pdf, info_dict_output, poolVars, mergeVars, work_failures, stderr_log >>

(***************************************************************************)
(* build_final_output (lines 328-364) and the two merge helpers.  A merge   *)
(* tool either writes PREFIX-OUTPUT.pdf or leaves nothing.                  *)
(***************************************************************************)
\* the test of line 332 without the encryption flag
rebuild_unless_encrypted ==
    input_file_type # "application/pdf" \/ args.use_deskew_mode

\* lines 331-333
rebuild_pdf_from_images ==
    input_file_is_encrypted \/ input_file_type # "application/pdf"
        \/ args.use_deskew_mode

\* line 335
direct_merge == (~rebuild_pdf_from_images) /\ (~args.force_rebuild_mode)

\* the repair tried after every direct merge
repair_always(used_pdftk, merged) == TRUE

\* lines 354-357: the repair is tried after the script merge left no output
repair_after(used_pdftk, merged) == ~used_pdftk /\ ~merged

\* lines 328-359, up to the call of a helper
build_final_output ==
    /\ pc = "build_final_output"
    /\ IF direct_merge
       THEN /\ merge_path' = "direct"
            /\ \E merged \in BOOLEAN :
                /\ files' = files
                     \cup {IF args.use_pdftk THEN MergePdftkLog ELSE MergeLog}
                     \cup (IF merged THEN {OutputPdf} ELSE {})
                /\ candidate' = IF merged THEN "input" ELSE candidate
                /\ pc' = IF repair_after(args.use_pdftk, merged)
                         THEN "try_repair_input_and_merge"
                         ELSE "output_check"
       ELSE /\ merge_path' = "rebuild"
            /\ pc' = "rebuild_and_merge"
            /\ UNCHANGED << files, candidate >>
    /\ UNCHANGED << exit_code, args, prefix, tesseract_pages, ghostscript, cpu_to_use, docVars,
                    out_pdf, info_dict_output, out_txt, poolVars, ocr_pdf, repair_calls, convert_params,
                    work_failures, stderr_log >>

\* try_repair_input_and_merge (lines 417-440).  Without ghostscript the
\* path handed to Popen is None and Popen raises TypeError (line 420).
try_repair_input_and_merge ==
    /\ pc = "try_repair_input_and_merge"
    /\ repair_calls' = repair_calls + 1
    /\ IF ~ghostscript
       THEN /\ Uncaught("TypeError")
            /\ files' = files \cup {Pdf2psLog}
            /\ UNCHANGED candidate
       ELSE /\ \E ps \in BOOLEAN, pdf \in BOOLEAN, merged \in BOOLEAN :
                /\ pdf => ps
                /\ merged => pdf
                /\ files' = files
                     \cup {Pdf2psLog, Ps2pdfLog, MergeFixedLog}
                     \cup (IF ps THEN {FixPs} ELSE {})
                     \cup (IF pdf THEN {FixPdf} ELSE {})
                     \cup (IF merged THEN {OutputPdf} ELSE {})
                /\ candidate' = IF merged THEN "repaired" ELSE candidate
            /\ pc' = "output_check"
            /\ UNCHANGED << exit_code, stderr_log >>
    /\ UNCHANGED << args, prefix, tesseract_pages, ghostscript, cpu_to_use, docVars, out_pdf, info_dict_output, out_txt,
                    poolVars, ocr_pdf, merge_path, convert_params, work_failures >>

\* lines 372-376: the presets of convert
preset_fast == "-threshold 60% -compress Group4"
preset_best ==
    "-colors 2 -colorspace gray -normalize -threshold 60% -compress Group4"
preset_grayscale ==
    "-threshold 85% -morphology Dilate Diamond -compress Group4"
preset_jpeg ==
    "-strip -interlace Plane -gaussian-blur 0.05 -quality 50% -compress JPEG"
preset_jpeg2000 == "-quality 32% -compress JPEG2000"

\* lines 175-177 (the default of -g is "", line 764)
user_convert_params == args.convert_params

\* lines 377-392: the parameters handed to convert for a selector
chosen_convert_params(selector) ==
    LET picked == IF selector = "fast" THEN preset_fast
                  ELSE IF selector = "best" THEN preset_best
                  ELSE IF selector = "grasyscale" THEN preset_grayscale
                  ELSE IF selector = "jpeg" THEN preset_jpeg
                  ELSE IF selector = "jpeg2000" THEN preset_jpeg2000
                  ELSE selector
    IN  IF picked = "" THEN preset_best ELSE picked

\* rebuild_and_merge (lines 366-415)
rebuild_and_merge ==
    /\ pc = "rebuild_and_merge"
    /\ \E rebuilt \in BOOLEAN, merged \in BOOLEAN :
        /\ merged => rebuilt
        /\ files' = files
             \cup {RebuildLog}
             \cup (IF rebuilt THEN {InputUnprotectedPdf} ELSE {})
             \cup (IF merged THEN {OutputPdf} ELSE {})
        /\ candidate' = IF merged THEN "rebuilt" ELSE candidate
    /\ convert_params' = chosen_convert_params(user_convert_params)
    /\ pc' = "output_check"
    /\ UNCHANGED << exit_code, args, prefix, tesseract_pages, ghostscript, cpu_to_use, docVars,
                    out_pdf, info_dict_output, out_txt, poolVars, ocr_pdf, merge_path,
                    repair_calls, work_failures, stderr_log >>

\* the candidate taken for written without looking
candidate_unchecked(dir) == FALSE

\* line 361: not os.path.isfile(PREFIX-OUTPUT.pdf)
candidate_missing(dir) == OutputPdf \notin dir

\* lines 361-364
output_check ==
    /\ pc = "output_check"
    /\ IF candidate_missing(files)
       THEN /\ Exit1("Output file could not be created :( Exiting.")
            /\ files' = cleanup(files)
       ELSE /\ pc' = "edit_producer"
            /\ UNCHANGED << exit_code, stderr_log, files >>
    /\ UNCHANGED << args, prefix, tesseract_pages, ghostscript, cpu_to_use, docVars, out_pdf, info_dict_output, out_txt,
                    poolVars, mergeVars, work_failures >>

\* every value copied as it is
copied_value_as_is(key, value) == value

\* lines 676-678: the value copied for a key of the source metadata
copied_value(key, value) ==
    IF key = producer_key THEN value \o << "; ", our_name >> ELSE value

\* lines 673-689: the metadata written to the final document
build_info_dict(metadata) ==
    LET copied == IF metadata.is_none THEN {}
                  ELSE {Entry(e.key, copied_value(e.key, e.value)) :
                            e \in metadata.dict}
        read_producer == \E e \in copied : e.key = producer_key
    IN  IF read_producer THEN copied
        ELSE copied \cup {Entry(producer_key, << our_name >>)}

\* edit_producer (lines 659-697): the finalizer writes self.output_file
edit_producer ==
    /\ pc = "edit_producer"
    /\ out_pdf' = "new"
    /\ info_dict_output' = build_info_dict(input_file_metadata)
    /\ pc' = "cleanup"
    /\ UNCHANGED << exit_code, args, prefix, tesseract_pages, ghostscript, cpu_to_use, docVars, files,
                    out_txt, poolVars, mergeVars, work_failures, stderr_log >>

\* lines 316-326 and exit(0) of line 793
finish ==
    /\ pc = "cleanup"
    /\ files' = cleanup(files)
    /\ pc' = "exit"
    /\ exit_code' = 0
    /\ UNCHANGED << args, prefix, tesseract_pages, ghostscript, cpu_to_use, docVars, out_pdf, info_dict_output, out_txt,
                    poolVars, mergeVars, work_failures, stderr_log >>

Next ==
    \/ init
    \/ detect_file_type
    \/ validate_pdf_input_file
    \/ define_output_files
    \/ initial_cleanup
    \/ convert_input_to_images
    \/ worker_take_chunk
    \/ do_pdftoimage
    \/ pdfimage_pool_done
    \/ list_image_files
    \/ deskew
    \/ do_deskew
    \/ deskew_pool_done
    \/ external_ocr
    \/ do_ocr
    \/ ocr_pool_map_wait
    \/ external_ocr_done
    \/ join_ocred_pdf
    \/ create_text_output
    \/ build_final_output
    \/ try_repair_input_and_merge
    \/ rebuild_and_merge
    \/ output_check
    \/ edit_producer
    \/ finish

Spec == Init /\ [][Next]_vars

(***************************************************************************)
(* calculate_ranges on its own: the run is about to call                    *)
(* convert_input_to_images on a PDF whose page count is unknown or any of   *)
(* 0..MaxRangePages, with any worker budget of 1..MaxRangeCpu.              *)
(***************************************************************************)
ArgsDefault ==
    [safe_mode |-> FALSE, check_text_mode |-> FALSE,
     check_protection_mode |-> FALSE, force_rebuild_mode |-> FALSE,
     use_deskew_mode |-> FALSE, create_text_mode |-> FALSE,
     use_pdftk |-> FALSE, keep_temps |-> FALSE, convert_params |-> ""]

InitRanges ==
    /\ pc = "convert_input_to_images"
    /\ exit_code = None
    /\ args = ArgsDefault
    /\ ghostscript = TRUE
    /\ cpu_to_use \in 1..MaxRangeCpu
    /\ input_file_type = "application/pdf"
    /\ input_file_is_encrypted = FALSE
    /\ input_file_number_of_pages \in {None} \cup 0..MaxRangePages
    /\ files = {}
    /\ out_pdf = "absent"
    /\ out_txt = "absent"
    /\ phase = "none"
    /\ parallel_page_ranges = << >>
    /\ image_file_list = << >>
    /\ st = << >>
    /\ ocr_pdf = << >>
    /\ merge_path = "none"
    /\ repair_calls = 0
    /\ convert_params = ""
    /\ tesseract_pages = {1}
    /\ overlay_pages = {}
    /\ candidate = "none"
    /\ work_failures = {}
    /\ stderr_log = ""
    /\ prefix = SomePrefix
    /\ input_file_metadata = Info({})
    /\ info_dict_output = {}

SpecRanges == InitRanges /\ [][convert_input_to_images]_vars

\* the ranges are these pages: contiguous, from page 1 to page P
IsPartition(r, P) ==
    /\ Len(r) >= 1
    /\ r[1][1] = 1
    /\ r[Len(r)][2] = P
    /\ \A k \in 1..Len(r) : r[k][1] <= r[k][2] + 1
    /\ \A k \in 1..(Len(r) - 1) : r[k + 1][1] = r[k][2] + 1
    /\ SumSeq([k \in 1..Len(r) |-> (r[k][2] - r[k][1]) + 1]) = P

\* C1: for every page count P >= 1 and worker budget W >= 1 calculate_ranges
\* returns (no ArithmeticError of its own check, no other exception) ranges
\* that are contiguous and non-overlapping, start at page 1, end at page P
\* and whose lengths sum to P.
C1_PartitionComplete ==
    (input_file_number_of_pages >= 1 /\ cpu_to_use >= 1
        /\ pc # "convert_input_to_images")
    => /\ stderr_log = ""
       /\ pc = "pdfimage_pool"
       /\ IsPartition(parallel_page_ranges, input_file_number_of_pages)

\* C1 witness: 10 pages over 4 workers, the last range clamped to page 10
C1_Witness ==
    /\ pc = "pdfimage_pool"
    /\ input_file_number_of_pages = 10
    /\ cpu_to_use = 4
    /\ parallel_page_ranges[Len(parallel_page_ranges)] = << 10, 10 >>

\* C2: for every page count P >= 1 and worker budget W >= 1 the number of
\* ranges calculate_ranges returns is at most W.
C2_PartitionBound ==
    (input_file_number_of_pages >= 1 /\ cpu_to_use >= 1
        /\ pc # "convert_input_to_images")
    => /\ pc = "pdfimage_pool"
       /\ Len(parallel_page_ranges) <= cpu_to_use

\* C2 witness: more pages than workers, and fewer ranges than workers
C2_Witness ==
    /\ pc = "pdfimage_pool"
    /\ input_file_number_of_pages > cpu_to_use
    /\ Len(parallel_page_ranges) >= 2
    /\ Len(parallel_page_ranges) < cpu_to_use

(***************************************************************************)
(* The merge stage: build_final_output and its fallbacks.                   *)
(***************************************************************************)
\* C3: whenever a direct-merge attempt leaves no candidate output file, the
\* repair-retry (try_repair_input_and_merge) is invoked exactly once before
\* the run is declared failed, with pdftk as with the merge script.
C3_RepairOnceBeforeFailure ==
    (pc = "exit" /\ exit_code = 1 /\ merge_path = "direct"
        /\ candidate = "none")
    => repair_calls = 1

\* C4: when no merge attempt (direct, repair-retry, rebuild) has written
\* the candidate PREFIX-OUTPUT.pdf the run ends with exit code 1 and
\* edit_producer has not run: the final output path is not written; and
\* edit_producer only ever runs on a candidate that was written.
C4_NoCandidateNoOutput ==
    /\ (pc = "exit" /\ merge_path # "none" /\ candidate = "none")
       => (exit_code = 1 /\ out_pdf # "new")
    /\ (pc \in {"edit_producer", "cleanup"} \/ out_pdf = "new")
       => (candidate # "none" /\ merge_path # "none")

\* C4 witness: the direct merge and the repair-retry both left no candidate
C4_Witness ==
    /\ pc = "exit"
    /\ exit_code = 1
    /\ merge_path = "direct"
    /\ repair_calls = 1
    /\ ghostscript
    /\ candidate = "none"
    /\ out_pdf = "absent"
    /\ stderr_log = "Output file could not be created :( Exiting."

\* C5: build_final_output rebuilds from the images exactly when the input
\* is encrypted, or is not a PDF, or deskew is used, or rebuild is forced;
\* on the direct path the candidate is merged from the input or from its
\* repaired copy, and only the rebuild path merges from the rebuilt document.
C5_RebuildTrigger ==
    merge_path # "none"
    => /\ (merge_path = "rebuild")
          <=> (input_file_is_encrypted
                 \/ input_file_type # "application/pdf"
                 \/ args.use_deskew_mode
                 \/ args.force_rebuild_mode)
       /\ merge_path = "direct" => candidate \in {"none", "input", "repaired"}
       /\ merge_path = "rebuild" => candidate \in {"none", "rebuilt"}

\* C5 witness: an encrypted 3-page PDF, deskew off, force-rebuild off, rebuilt
C5_Witness ==
    /\ merge_path = "rebuild"
    /\ candidate = "rebuilt"
    /\ input_file_type = "application/pdf"
    /\ input_file_is_encrypted
    /\ input_file_number_of_pages = 3
    /\ ~args.use_deskew_mode
    /\ ~args.force_rebuild_mode

(***************************************************************************)
(* The overlay assembler and the work items before it.                      *)
(***************************************************************************)
\* the per-page overlay documents written by do_ocr
PageOverlays(dir) == {f \in glob_prefix(dir, "pdf") : f.num # << >>}

\* the main process is in a stage that follows join_ocred_pdf
AfterJoin ==
    pc \in {"create_text_output", "build_final_output",
            "try_repair_input_and_merge", "rebuild_and_merge", "output_check",
            "edit_producer", "cleanup"}

\* C6: when join_ocred_pdf finds no per-page overlay the run ends with exit
\* code 1: PREFIX-ocr.pdf is never assembled from zero overlays, and the
\* text output, the merge and the finalizer do not run.
C6_ZeroOverlayFatal ==
    /\ AfterJoin => (Len(ocr_pdf) >= 1 /\ OcrPdf \in files)
    /\ Len(ocr_pdf) = 0
       => (OcrPdf \notin files /\ out_txt # "new" /\ out_pdf # "new"
             /\ merge_path = "none" /\ candidate = "none")
    /\ (pc = "exit"
          /\ stderr_log = "No PDF files generated after OCR. Aborting.")
       => (exit_code = 1 /\ Len(ocr_pdf) = 0)

\* C6 witness: images were written, every OCR item failed, the run aborted
C6_Witness ==
    /\ pc = "exit"
    /\ exit_code = 1
    /\ stderr_log = "No PDF files generated after OCR. Aborting."
    /\ Len(image_file_list) >= 2
    /\ "ocr" \in work_failures
    /\ args.create_text_mode

\* C7: when OCR fails for a page image while other pages succeed, the
\* assembler does not silently assemble a document that skips the page:
\* an assembled PREFIX-ocr.pdf has an overlay for every page image.
C7_NoSilentHole ==
    OcrPdf \in files
    => \A f \in glob_prefix(files, extension_images) : TessPdf(f.num) \in files

\* C8: whatever the order in which the OCR items ended and glob listed the
\* overlays, the pages of the assembled PREFIX-ocr.pdf are those of the
\* per-page overlays, in ascending page order; a single overlay is copied.
C8_OverlayOrder ==
    OcrPdf \in files
    => /\ \A i \in 1..Len(ocr_pdf), j \in 1..Len(ocr_pdf) :
            i < j => ocr_pdf[i] < ocr_pdf[j]
       /\ {ocr_pdf[k] : k \in 1..Len(ocr_pdf)}
            = {NumValue(f.num) : f \in PageOverlays(files)}
       /\ Len(ocr_pdf) = Cardinality(PageOverlays(files))

\* C8 witness: three or more overlays written by two parallel workers
C8_Witness ==
    /\ OcrPdf \in files
    /\ cpu_to_use = 2
    /\ Len(ocr_pdf) >= 3
    /\ ocr_pdf[1] = 1 /\ ocr_pdf[2] = 2 /\ ocr_pdf[3] = 3

\* C9: a failed rasterize, deskew or OCR work item does not end the run;
\* with at least one overlay join_ocred_pdf goes on to the later stages; a
\* run in which an item failed is only ended at join_ocred_pdf with zero
\* overlays or by the merge stage.
C9_PartialFailureContinues ==
    [][ /\ work_failures' # work_failures => exit_code' = None
        /\ (pc = "join_ocred_pdf" /\ PageOverlays(files) # {})
           => (pc' = "create_text_output" /\ exit_code' = None)
        /\ (exit_code = None /\ exit_code' = 1 /\ work_failures # {})
           => \/ pc = "join_ocred_pdf" /\ PageOverlays(files) = {}
              \/ pc \in {"output_check", "try_repair_input_and_merge"}
      ]_vars

\* C9 witness: an item failed in each phase and the output was still written
C9_Witness ==
    /\ pc = "exit"
    /\ exit_code = 0
    /\ out_pdf = "new"
    /\ work_failures = {"rasterize", "deskew", "ocr"}

\* C10: in a parallel phase a failing item neither cancels nor pre-empts its
\* siblings (every dispatched item is run), and the phase is over only when
\* no item of it is still running.
C10_NoSiblingPreempted ==
    /\ \A k \in 1..Len(st) : st[k] # "skipped"
    /\ pc \notin {"pdfimage_pool", "deskew_pool", "ocr_pool_map"}
       => (Running = {} /\ phase = "none")

(***************************************************************************)
(* The order of the stages and the size of the pool.                        *)
(***************************************************************************)
\* the position of a control point in ocr() (lines 287-316)
StageRank(p) ==
    CASE p = "init" -> 0
      [] p = "detect_file_type" -> 1
      [] p = "validate_pdf_input_file" -> 2
      [] p = "define_output_files" -> 3
      [] p = "initial_cleanup" -> 4
      [] p = "convert_input_to_images" -> 5
      [] p = "pdfimage_pool" -> 6
      [] p = "image_file_list" -> 7
      [] p = "deskew" -> 8
      [] p = "deskew_pool" -> 9
      [] p = "external_ocr" -> 10
      [] p = "ocr_pool_map" -> 11
      [] p = "join_ocred_pdf" -> 12
      [] p = "create_text_output" -> 13
      [] p = "build_final_output" -> 14
      [] p = "try_repair_input_and_merge" -> 15
      [] p = "rebuild_and_merge" -> 15
      [] p = "output_check" -> 16
      [] p = "edit_producer" -> 17
      [] p = "cleanup" -> 18
      [] p = "exit" -> 19

\* C11: the rasterize, deskew and OCR phases never overlap.  Work items
\* exist only while the main process waits in the pool call of their own
\* phase; a phase is left only when none of its items is queued or running;
\* the main process only moves forward through rasterize, deskew, OCR and
\* overlay assembly, so no item of a later phase starts before the earlier
\* phase is over and join_ocred_pdf starts after the OCR phase.
C11_PhasesSequential ==
    /\ [](/\ phase = "rasterize" => pc = "pdfimage_pool"
          /\ phase = "deskew" => pc = "deskew_pool"
          /\ phase = "ocr" => pc = "ocr_pool_map"
          /\ phase = "none" => st = << >>
          /\ pc = "join_ocred_pdf" => phase = "none")
    /\ [][ /\ (phase # "none" /\ phase' # phase)
              => \A k \in 1..Len(st) : st[k] \notin {"queued", "running"}
           /\ StageRank(pc') >= StageRank(pc)
           /\ (\E k \in 1..Len(st') :
                  /\ st'[k] = "running"
                  /\ (k > Len(st) \/ st[k] # "running"))
              => (phase' = phase /\ phase # "none")
         ]_vars

\* C11 witness: a 3-page PDF went through rasterize, deskew and OCR with two
\* workers and the assembler is about to start
C11_Witness ==
    /\ pc = "join_ocred_pdf"
    /\ args.use_deskew_mode
    /\ input_file_number_of_pages = 3
    /\ cpu_to_use = 2
    /\ Cardinality(PageOverlays(files)) = 3
    /\ work_failures = {}

\* C12: at any moment at most W work items are executing, where W >= 1 is
\* the pool size cpu_to_use, which is computed in __init__ and never
\* changed afterwards.
C12_BoundedConcurrency ==
    /\ [](/\ Cardinality(Running) <= cpu_to_use
          /\ pc \notin {"init", "exit"} => cpu_to_use >= 1
          /\ Running # {} => cpu_to_use >= 1)
    /\ [][pc # "init" => cpu_to_use' = cpu_to_use]_vars

\* C12 witness: both workers of a pool of two are busy while an OCR item
\* still waits in the queue
C12_Witness ==
    /\ phase = "ocr"
    /\ cpu_to_use = 2
    /\ Cardinality(Running) = 2
    /\ \E k \in 1..Len(st) : st[k] = "queued"

(***************************************************************************)
(* Two invocations on one temp directory.  The other invocation is the set  *)
(* of temp files it has written so far under its own prefix; this run goes  *)
(* through the whole pipeline next to them.                                 *)
(***************************************************************************)
MaxSharedPages == 2   \* pages of the input document in these runs

\* values of the random prefix (line 154), five characters of A-Z0-9 each:
\* "K3QZ7", "OUTPU", "00000"
Prefixes ==
    { SomePrefix, << 79, 85, 84, 80, 85 >>, << 48, 48, 48, 48, 48 >> }

\* temp files of an invocation with prefix q that converted an image input,
\* ran OCR on its first page and merged its output
OtherRunFiles(q) ==
    { NameOf(q, "", "", PadNum(1, ConvertWidth), extension_images),
      NameOf(q, "", "", PadNum(1, ConvertWidth), "pdf"),
      NameOf(q, "", "-ocr", << >>, "pdf"),
      NameOf(q, "", "-OUTPUT", << >>, "pdf"),
      NameOf(q, "tess_err_", "", PadNum(1, ConvertWidth), "log") }

\* the command lines of these runs: the merge script, no forced rebuild
ArgsShared == {a \in Args : ~a.force_rebuild_mode /\ ~a.use_pdftk}

InitShared ==
    /\ pc = "init"
    /\ exit_code = None
    /\ args \in ArgsShared
    /\ ghostscript = FALSE
    /\ cpu_to_use = 0
    /\ input_file_type = ""
    /\ input_file_is_encrypted = FALSE
    /\ input_file_number_of_pages = None
    /\ prefix \in Prefixes
    /\ \E q \in Prefixes \ {prefix} : files = OtherRunFiles(q)
    /\ out_pdf = "absent"
    /\ out_txt = "absent"
    /\ phase = "none"
    /\ parallel_page_ranges = << >>
    /\ image_file_list = << >>
    /\ st = << >>
    /\ ocr_pdf = << >>
    /\ merge_path = "none"
    /\ repair_calls = 0
    /\ convert_params = ""
    /\ tesseract_pages = {1}
    /\ overlay_pages = {}
    /\ candidate = "none"
    /\ work_failures = {}
    /\ stderr_log = ""
    /\ input_file_metadata = Info({})
    /\ info_dict_output = {}

\* the input document has at most MaxSharedPages pages
SmallInput ==
    input_file_number_of_pages \in {None} \cup 1..MaxSharedPages

validate_small_input == validate_pdf_input_file /\ SmallInput'

NextSmall ==
    \/ init
    \/ detect_file_type
    \/ validate_small_input
    \/ define_output_files
    \/ initial_cleanup
    \/ convert_input_to_images
    \/ worker_take_chunk
    \/ do_pdftoimage
    \/ pdfimage_pool_done
    \/ list_image_files
    \/ deskew
    \/ do_deskew
    \/ deskew_pool_done
    \/ external_ocr
    \/ do_ocr
    \/ ocr_pool_map_wait
    \/ external_ocr_done
    \/ join_ocred_pdf
    \/ create_text_output
    \/ build_final_output
    \/ try_repair_input_and_merge
    \/ rebuild_and_merge
    \/ output_check
    \/ edit_producer
    \/ finish

SpecShared == InitShared /\ [][NextSmall]_vars

(***************************************************************************)
(* Runs with the safe mode and the two pre-checks of the input switched on  *)
(* or off, next to output files that may already exist.                     *)
(***************************************************************************)
ArgsFlags ==
    [safe_mode : BOOLEAN, check_text_mode : BOOLEAN,
     check_protection_mode : BOOLEAN, force_rebuild_mode : {FALSE},
     use_deskew_mode : BOOLEAN, create_text_mode : BOOLEAN,
     use_pdftk : BOOLEAN, keep_temps : {FALSE}, convert_params : {""}]

InitFlags ==
    /\ pc = "init"
    /\ exit_code = None
    /\ args \in ArgsFlags
    /\ ghostscript = FALSE
    /\ cpu_to_use = 0
    /\ input_file_type = ""
    /\ input_file_is_encrypted = FALSE
    /\ input_file_number_of_pages = None
    /\ prefix = SomePrefix
    /\ files = {}
    /\ out_pdf \in {"absent", "old"}
    /\ out_txt \in {"absent", "old"}
    /\ phase = "none"
    /\ parallel_page_ranges = << >>
    /\ image_file_list = << >>
    /\ st = << >>
    /\ ocr_pdf = << >>
    /\ merge_path = "none"
    /\ repair_calls = 0
    /\ convert_params = ""
    /\ tesseract_pages = {1}
    /\ overlay_pages = {}
    /\ candidate = "none"
    /\ work_failures = {}
    /\ stderr_log = ""
    /\ input_file_metadata = Info({})
    /\ info_dict_output = {}

SpecFlags == InitFlags /\ [][NextSmall]_vars

\* the temp files that carry the prefix of the other invocation
OthersFiles(dir) == {f \in dir : f.prefix # prefix}

\* C13: of two invocations with distinct prefixes on one temp directory,
\* neither reads, overwrites or deletes a temp file of the other: no step
\* of this run removes or rewrites a file that carries the other prefix
\* (its cleanup included), and its globs list only its own files.
C13_NoCollision ==
    /\ [][ /\ OthersFiles(files) \subseteq files'
           /\ OthersFiles(files') \subseteq files ]_vars
    /\ [](\A ext \in {extension_images, "pdf", "txt", "tmp"} :
            OthersFiles(glob_prefix(files, ext)) = {})

\* no stage of the pipeline has run: nothing rasterized, deskewed, OCR'ed,
\* merged or finalized, and no temp file written
NoStageRan ==
    /\ phase = "none"
    /\ st = << >>
    /\ image_file_list = << >>
    /\ work_failures = {}
    /\ files = {}
    /\ ocr_pdf = << >>
    /\ merge_path = "none"
    /\ candidate = "none"
    /\ info_dict_output = {}

\* safe mode is on and an output file it protects is there
SafeModeHit ==
    /\ args.safe_mode
    /\ out_pdf = "old" \/ (args.create_text_mode /\ out_txt = "old")

\* C14: with safe mode on, if the output PDF already exists (or text output
\* is requested and the output text file already exists) the run gets no
\* further than define_output_files and exits with code 1; no pipeline
\* stage runs and no step removes or overwrites an output file.
C14_SafeModeRefuses ==
    /\ [](SafeModeHit
            => /\ StageRank(pc) <= 3 \/ (pc = "exit" /\ exit_code = 1)
               /\ NoStageRan)
    /\ [][SafeModeHit => (out_pdf' = out_pdf /\ out_txt' = out_txt)]_vars

\* C14 witness: safe mode with text output, no output PDF yet but an old
\* text file: the run was refused in define_output_files
C14_Witness ==
    /\ pc = "exit"
    /\ exit_code = 1
    /\ args.safe_mode
    /\ args.create_text_mode
    /\ out_pdf = "absent"
    /\ out_txt = "old"
    /\ stderr_log = "already exists and safe mode is enabled. Exiting."
    /\ input_file_type = "application/pdf"

\* the producer entries of a metadata dict
Producers(dict) == {e \in dict : e.key = producer_key}

\* C15: whenever the finalizer has written the final document, its
\* metadata has one producer field and it contains the tool's signature:
\* the source's producer value followed by "; " and the signature when the
\* source metadata had a producer field, the signature alone otherwise
\* (also when the source metadata is absent or the input was encrypted).
C15_ProducerSignature ==
    out_pdf = "new"
    => /\ Cardinality(Producers(info_dict_output)) = 1
       /\ \A e \in Producers(info_dict_output) :
            /\ e.value[Len(e.value)] = our_name
            /\ IF Producers(input_file_metadata.dict) # {}
               THEN \E src \in Producers(input_file_metadata.dict) :
                        e.value = src.value \o << "; ", our_name >>
               ELSE e.value = << our_name >>
            /\ (input_file_is_encrypted \/ input_file_metadata.is_none
                  \/ input_file_type # "application/pdf")
               => e.value = << our_name >>

\* C15 witness: the source's producer was "Acrobat" and the final document
\* was written with the signature appended to it
C15_Witness ==
    /\ out_pdf = "new"
    /\ pc = "exit"
    /\ Entry(producer_key, << "Acrobat" >>) \in input_file_metadata.dict
    /\ Entry(producer_key, << "Acrobat", "; ", our_name >>) \in info_dict_output

\* the messages of the fatal conditions (lines 199, 208, 232-256, 473, 529,
\* 551-553, 562, 597, 602, 363) and the uncaught exceptions
FatalMessages ==
    { "tool not found. Aborting...", "input not found. Exiting.",
      "pdftk not found. Aborting...",
      "Corrupted PDF file detected. Aborting...",
      "already has text. Exiting.", "is encrypted PDF. Exiting.",
      "already exists and safe mode is enabled. Exiting.",
      "is not supported in this script. Exiting.",
      "No PDF files generated after OCR. Aborting.",
      "Output file could not be created :( Exiting.",
      "TypeError", "ZeroDivisionError", "ArithmeticError" }

\* C16: the process exits with code 0 only after the final output document
\* has been written, and with code 1 on every fatal condition: a missing
\* required tool, a missing or corrupt input, an unsupported mime type, no
\* OCR output, and a merge that left no candidate after all fallbacks.
C16_ExitCodes ==
    /\ exit_code \in {None, 0, 1}
    /\ exit_code # None <=> pc = "exit"
    /\ exit_code = 0 => (out_pdf = "new" /\ stderr_log = "")
    /\ stderr_log # "" => (stderr_log \in FatalMessages /\ exit_code = 1)
    /\ pc = "exit"
       => /\ input_file_type \notin {"", "application/pdf", "image/tiff"}
             => exit_code = 1
          /\ Len(ocr_pdf) = 0 => exit_code = 1
          /\ candidate = "none" => exit_code = 1
          /\ out_pdf # "new" => exit_code = 1

\* C16 witness: a run on an unsupported mime type ended with exit code 1
C16_Witness ==
    /\ pc = "exit"
    /\ exit_code = 1
    /\ input_file_type = "text/plain"
    /\ stderr_log = "is not supported in this script. Exiting."
    /\ out_pdf = "absent"

\* C17: on every fatal termination a message was printed to the error
\* stream and, unless keep-temps was requested, no temp file carrying the
\* run's prefix is left when the process exits; this covers every path to
\* a fatal exit, a merge failure whose repair-retry cannot run included.
C17_FatalCleansUp ==
    (pc = "exit" /\ exit_code = 1)
    => /\ stderr_log # ""
       /\ delete_temps => glob_any_prefix(files) = {}

(***************************************************************************)
(* Termination.  Every external tool invocation returns and the worker      *)
(* processes and the main process keep being scheduled: a step that stays   *)
(* possible is eventually taken.  The input has at most MaxSharedPages      *)
(* pages.                                                                   *)
(***************************************************************************)
\* the command lines of these runs: with and without deskew
ArgsLive ==
    {a \in Args : ~a.force_rebuild_mode /\ ~a.use_pdftk
                      /\ ~a.create_text_mode}

InitLive == \E a \in ArgsLive : Boot(a) /\ out_pdf = "absent"

SpecLive == InitLive /\ [][NextSmall]_vars /\ WF_vars(NextSmall)

\* C18: every run eventually reaches a terminal state, exit code 0 or 1;
\* in particular the polling loop of external_ocr is left once every OCR
\* item has ended, whether or not some of them failed.
C18_Terminates ==
    /\ <>(pc = "exit" /\ exit_code \in {0, 1})
    /\ (pc = "ocr_pool_map") ~> (pc = "join_ocred_pdf")

\* C18 witness: an OCR item failed, the polling loop was left and the run
\* went on to its end
C18_Witness ==
    /\ pc = "exit"
    /\ exit_code = 0
    /\ "ocr" \in work_failures
    /\ Len(image_file_list) >= 2

\* C19: the text file is written to its destination only after the merge
\* stage has produced the final candidate document PREFIX-OUTPUT.pdf.
C19_TextAfterCandidate ==
    out_txt = "new" => (OutputPdf \in files \/ out_pdf = "new")

\* the fatal conditions found at startup: __init__, check_external_tools
\* and validate_pdf_input_file
StartupFatal ==
    stderr_log \in { "tool not found. Aborting...",
                     "input not found. Exiting.",
                     "pdftk not found. Aborting...",
                     "Corrupted PDF file detected. Aborting...",
                     "already has text. Exiting.",
                     "is encrypted PDF. Exiting." }

\* C20: a startup fatal condition (a required tool absent, the input file
\* missing, a corrupt PDF, a failed text-presence or encryption pre-check)
\* ends the run with exit code 1 before any work begins: no rasterize,
\* deskew or OCR work item is ever dispatched, no stage has produced
\* anything, and no step up to there (nor after the exit) touches an
\* existing output file.
C20_StartupFatal ==
    /\ [](StartupFatal => (pc = "exit" /\ exit_code = 1 /\ NoStageRan))
    /\ []((/\ args.check_protection_mode
           /\ input_file_type = "application/pdf"
           /\ input_file_is_encrypted)
            => (pc = "exit" /\ exit_code = 1 /\ NoStageRan))
    /\ [][ /\ StageRank(pc) <= 2
              => (out_pdf' = out_pdf /\ out_txt' = out_txt /\ st' = << >>)
           /\ (stderr_log' # stderr_log /\ StartupFatal')
              => StageRank(pc) <= 2
           /\ pc # "exit" ]_vars

\* C20 witness: an encrypted PDF is refused by the encryption pre-check
\* while both output files of an earlier run are in place.
C20_Witness ==
    /\ pc = "exit"
    /\ exit_code = 1
    /\ stderr_log = "is encrypted PDF. Exiting."
    /\ input_file_is_encrypted
    /\ out_pdf = "old"
    /\ out_txt = "old"

(***************************************************************************)
(* The sizes of the ranges of calculate_ranges.                             *)
(***************************************************************************)
\* the number of pages of range k of r
RangeLen(r, k) == (r[k][2] - r[k][1]) + 1

\* C21: for every P >= 1 and W >= 1, with rangeSize = ceil(P / W) (the
\* least rs with rs * W >= P), calculate_ranges returns exactly
\* ceil(P / rangeSize) ranges; every range but the last has exactly
\* rangeSize pages and the last has between 1 and rangeSize pages.  For
\* P = 10 and W = 4 the ranges have 3, 3, 3 and 1 pages.
C21_RangeSizes ==
    (input_file_number_of_pages >= 1 /\ cpu_to_use >= 1
        /\ pc # "convert_input_to_images")
    => /\ pc = "pdfimage_pool"
       /\ \E rs \in 1..input_file_number_of_pages :
            LET P == input_file_number_of_pages
                r == parallel_page_ranges
            IN  /\ rs * cpu_to_use >= P
                /\ (rs - 1) * cpu_to_use < P
                /\ Len(r) * rs >= P
                /\ (Len(r) - 1) * rs < P
                /\ \A k \in 1..(Len(r) - 1) : RangeLen(r, k) = rs
                /\ RangeLen(r, Len(r)) \in 1..rs
       /\ (input_file_number_of_pages = 10 /\ cpu_to_use = 4)
            => [k \in 1..Len(parallel_page_ranges) |->
                    RangeLen(parallel_page_ranges, k)] = << 3, 3, 3, 1 >>

\* C21 witness: 5 pages over 4 workers give 3 ranges of 2, 2 and 1 pages,
\* one range fewer than there are workers
C21_Witness ==
    /\ pc = "pdfimage_pool"
    /\ input_file_number_of_pages = 5
    /\ cpu_to_use = 4
    /\ parallel_page_ranges = << << 1, 2 >>, << 3, 4 >>, << 5, 5 >> >>

(***************************************************************************)
(* The repair-retry and the rebuild path.                                   *)
(***************************************************************************)
\* C22: try_repair_input_and_merge runs only after a direct merge against
\* the original input left no candidate PREFIX-OUTPUT.pdf: it is entered
\* from build_final_output on the direct path only, never after a direct
\* merge that wrote the candidate, and never on the rebuild path, where a
\* merge against the rebuilt document that leaves no candidate leads
\* straight to the fatal exit.
C22_RepairOnlyAfterDirectFailure ==
    /\ [](/\ pc = "try_repair_input_and_merge"
             => /\ merge_path = "direct"
                /\ candidate = "none"
                /\ OutputPdf \notin files
                /\ repair_calls = 0
          /\ repair_calls > 0 => merge_path = "direct"
          /\ merge_path = "rebuild"
             => /\ repair_calls = 0
                /\ candidate \in {"none", "rebuilt"}
                /\ (pc = "exit" /\ candidate = "none")
                     => /\ exit_code = 1
                        /\ stderr_log =
                             "Output file could not be created :( Exiting.")
    /\ [][ /\ pc' = "try_repair_input_and_merge"
              => (pc = "build_final_output" /\ direct_merge)
           /\ (pc = "build_final_output" /\ OutputPdf \in files')
              => pc' = "output_check"
           /\ pc = "rebuild_and_merge" => pc' = "output_check"
           /\ (pc = "output_check" /\ merge_path = "rebuild"
                 /\ candidate = "none")
              => (pc' = "exit" /\ exit_code' = 1) ]_vars

\* C22 witness: the direct merge left no candidate, the repair ran once
\* and its merge of the repaired document wrote the candidate
C22_Witness ==
    /\ pc = "output_check"
    /\ merge_path = "direct"
    /\ repair_calls = 1
    /\ candidate = "repaired"
    /\ OutputPdf \in files

\* C23: whenever the rebuild-from-images path is taken (encrypted input,
\* non-PDF input, deskew applied, or forced rebuild) the finalized output
\* carries none of the metadata entries of the original document, only the
\* producer signature of the tool.
C23_RebuildDiscardsMetadata ==
    (merge_path = "rebuild" /\ out_pdf = "new")
    => info_dict_output = {Entry(producer_key, << our_name >>)}

(***************************************************************************)
(* The rebuild presets: the whole run with every selector of -g tried, on   *)
(* inputs of at most MaxSharedPages pages.                                  *)
(***************************************************************************)
\* the values of -g tried: none, the five presets, a filter specification
Selectors ==
    { "", "fast", "best", "grayscale", "jpeg", "jpeg2000",
      "-threshold 50% -compress Group4" }

ArgsPresets ==
    {[a EXCEPT !.convert_params = g] :
        a \in {b \in Args : ~b.use_pdftk /\ ~b.create_text_mode},
        g \in Selectors}

InitPresets == \E a \in ArgsPresets : Boot(a) /\ out_pdf = "absent"

SpecPresets == InitPresets /\ [][NextSmall]_vars

\* the preset a selector names
PresetNamed(selector) ==
    CASE selector = "fast" -> preset_fast
      [] selector = "best" -> preset_best
      [] selector = "grayscale" -> preset_grayscale
      [] selector = "jpeg" -> preset_jpeg
      [] selector = "jpeg2000" -> preset_jpeg2000
      [] selector = "" -> preset_best
      [] OTHER -> selector

\* C24: on the rebuild path the parameters handed to convert are chosen
\* from the selector of -g: fast, best, grayscale, jpeg and jpeg2000 each
\* give their own preset, an empty or absent selector gives the best
\* preset, and any other string is used literally.
C24_PresetSelection ==
    (merge_path = "rebuild" /\ pc # "rebuild_and_merge")
    => convert_params = PresetNamed(args.convert_params)

(***************************************************************************)
(* A tesseract that may emit more than one page for a page image: the      *)
(* whole run on inputs of at most MaxSharedPages pages.                     *)
(***************************************************************************)
InitOcr ==
    /\ pc = "init"
    /\ exit_code = None
    /\ args \in ArgsLive
    /\ ghostscript = FALSE
    /\ cpu_to_use = 0
    /\ input_file_type = ""
    /\ input_file_is_encrypted = FALSE
    /\ input_file_number_of_pages = None
    /\ prefix = SomePrefix
    /\ files = {}
    /\ out_pdf = "absent"
    /\ out_txt = "absent"
    /\ phase = "none"
    /\ parallel_page_ranges = << >>
    /\ image_file_list = << >>
    /\ st = << >>
    /\ ocr_pdf = << >>
    /\ merge_path = "none"
    /\ repair_calls = 0
    /\ candidate = "none"
    /\ work_failures = {}
    /\ stderr_log = ""
    /\ input_file_metadata = Info({})
    /\ info_dict_output = {}
    /\ convert_params = ""
    /\ tesseract_pages = 1..MaxTessPages
    /\ overlay_pages = {}

SpecOcr == InitOcr /\ [][NextSmall]_vars

\* C25: when tesseract emits a document of more than one page for a single
\* page image the run treats it as a fatal fault: no overlay of more than
\* one page is ever written, and a run in which tesseract emitted such a
\* document does not go on to join the overlays.
C25_MultiPageOcrFatal ==
    \A o \in overlay_pages : o.pages = 1

\* the run ended on an error of the user's input
UserInputError ==
    /\ pc = "exit"
    /\ stderr_log \in { "input not found. Exiting.",
                        "Corrupted PDF file detected. Aborting...",
                        "is not supported in this script. Exiting.",
                        "already exists and safe mode is enabled. Exiting.",
                        "already has text. Exiting.",
                        "is encrypted PDF. Exiting." }

\* the run starts with a file of an earlier run at the output PDF path and
\* at the output text path
InitExisting == InitFlags /\ out_pdf = "old" /\ out_txt = "old"

SpecExisting == InitExisting /\ [][NextSmall]_vars

\* C26: a run that ends with a user-input error (corrupt input, unsupported
\* mime type, safe-mode collision, text or encryption pre-check failure)
\* leaves the files that already existed at the output PDF path and at the
\* output text path as they were.
C26_UserErrorKeepsOutputs ==
    UserInputError => (out_pdf = "old" /\ out_txt = "old")

(***************************************************************************)
(* What the overlay assembler finds in the temp directory.                  *)
(***************************************************************************)
\* the overlays do_ocr has written completely
CompletedOverlays == {o.name : o \in overlay_pages}

\* C27: when join_ocred_pdf collects the overlays, the files matching
\* PREFIX*.pdf are exactly the per-page overlays this run has completed:
\* the assembled overlay, the rebuilt and repaired documents and the
\* candidate output do not exist yet, and no OCR work item is queued or
\* running when the assembler is entered, so no overlay is being written.
C27_AssemblerSeesOnlyOverlays ==
    /\ [](pc = "join_ocred_pdf"
            => /\ glob_prefix(files, "pdf") = CompletedOverlays
               /\ \A name \in CompletedOverlays :
                     \E k \in 1..Len(image_file_list) :
                         name = TessPdf(image_file_list[k].num)
               /\ {OcrPdf, InputUnprotectedPdf, FixPdf, OutputPdf}
                     \cap files = {}
               /\ Running = {}
               /\ phase = "none")
    /\ [][(pc' = "join_ocred_pdf" /\ pc # "join_ocred_pdf")
            => \A k \in 1..Len(st) : st[k] \notin {"queued", "running"}]_vars

\* C27 witness: the assembler is entered with two completed overlays after
\* an OCR item failed
C27_Witness ==
    /\ pc = "join_ocred_pdf"
    /\ Cardinality(CompletedOverlays) = 2
    /\ Len(image_file_list) >= 3
    /\ "ocr" \in work_failures

(***************************************************************************)
(* The files the work items of a phase write.                               *)
(***************************************************************************)
\* C28: no two work items dispatched in the same phase write to the same
\* file: rasterize items of different ranges write disjoint page images
\* and distinct logs, a deskew item rewrites only its own image, an OCR
\* item writes only the files named after its own image; and a step of a
\* phase adds to the directory only files of the items of that phase.
C28_ItemsWriteDisjointFiles ==
    /\ [](\A j \in 1..Len(st), k \in 1..Len(st) :
            j # k => item_writes(j) \cap item_writes(k) = {})
    /\ [][(phase # "none" /\ phase' = phase)
            => (files' \ files)
                  \subseteq UNION {item_writes(k) : k \in 1..Len(st)}]_vars

\* C28 witness: two rasterize items run at the same time, each with its
\* own log, on a document of at least 4 pages
C28_Witness ==
    /\ phase = "rasterize"
    /\ Running = {1, 2}
    /\ input_file_number_of_pages >= 4
    /\ PdftoppmErrLog(parallel_page_ranges[1][1]) \in files
    /\ PdftoppmErrLog(parallel_page_ranges[2][1]) \in files

\* C29: for every page count validation can report (unknown, or any
\* P >= 0, a document without pages included) and every W >= 1,
\* calculate_ranges returns normally, None for an unknown page count or a
\* list of ranges, and never raises an exception.
C29_RangesNeverRaise ==
    (cpu_to_use >= 1 /\ pc # "convert_input_to_images")
    => /\ stderr_log = ""
       /\ pc \in {"pdfimage_pool", "image_file_list"}
       /\ input_file_number_of_pages = None <=> pc = "image_file_list"

====
